---------------------------- MODULE Spec2Model ----------------------------
(***************************************************************************)
(* A model of db_to_excel.py: the one-shot ETL that reads rows from a      *)
(* PostgreSQL query and uploads them to an Excel Online table through the  *)
(* Microsoft Graph API.                                                    *)
(*                                                                         *)
(* Four state machines share the module, one specification each:           *)
(*   Spec         main(): validate, connect, extract, write, reconcile,    *)
(*                report, close                                            *)
(*   SpecLoad     extract_data() followed by load_to_excel_online() on its *)
(*                result, every remote call free to fail                   *)
(*   SpecCompare  compare_data()                                           *)
(*   SpecRange    the range address of the create-table request            *)
(* A specification leaves the variables of the other machines at their     *)
(* idle values.                                                            *)
(***************************************************************************)
EXTENDS Integers, Sequences, FiniteSets, TLC

VARIABLES
    \* ---- main() ----
    env,            \* os.environ as Config.__init__ reads it
    mpc,            \* position in main()
    conn,           \* "none", "open" or "closed"
    closes,         \* number of conn.close() calls
    row_count,      \* the local 'row_count' (-1 before it is assigned)
    steps,          \* the steps main() has reached, in order
    io,             \* database and destination calls made by main(), in order
    mlog,           \* logger.error lines of main(), by handler
    \* ---- extract_data() + load_to_excel_online() ----
    lpc,            \* position in the pipeline
    cursor,         \* what the database cursor will yield
    batchSize,      \* config.BATCH_SIZE
    columns,        \* extract_data's first result
    data,           \* extract_data's second result
    table,          \* the local 'table': "unset", "found" or "created"
    formatted_data, \* the local 'formatted_data'
    idx,            \* the loop variable 'i' of the append loop
    calls,          \* destination calls made, in order
    lookupErr,      \* how the table lookup failed: "none", "not_found", "other"
    headerRead,     \* what header_row.get() returned ("unread" before it)
    \* ---- compare_data() ----
    cpc,            \* position in compare_data()
    cin,            \* its inputs: the database's answers and the Excel file
    cres,           \* its outcome
    \* ---- range address ----
    rpc, rC, rN, rAddr

mainVars == <<env, mpc, conn, closes, row_count, steps, io, mlog>>
loadVars == <<lpc, cursor, batchSize, columns, data, table, formatted_data,
              idx, calls, lookupErr, headerRead>>
cmpVars == <<cpc, cin, cres>>
rangeVars == <<rpc, rC, rN, rAddr>>
vars == <<mainVars, loadVars, cmpVars, rangeVars>>

\* what the actions of one machine leave unchanged
notMain == <<loadVars, cmpVars, rangeVars>>
notLoad == <<mainVars, cmpVars, rangeVars>>
notCompare == <<mainVars, loadVars, rangeVars>>
notRange == <<mainVars, loadVars, cmpVars>>

(***************************************************************************)
(* Bounds of the model.                                                    *)
(***************************************************************************)
MaxRows == 4        \* rows a query yields
MaxCols == 2        \* columns of a query result
MaxBatch == 3       \* config.BATCH_SIZE ranges over 1..MaxBatch
MaxRangeCols == 28  \* column counts the range address is computed for
MaxRangeRows == 2   \* row counts the range address is computed for
MaxCmpRows == 6     \* rows on either side of compare_data

(***************************************************************************)
(* Python values.  Every value is a tagged record so that values of        *)
(* different types can be compared.                                        *)
(***************************************************************************)
None == [t |-> "none"]
IntV(n) == [t |-> "int", n |-> n]
StrV(s) == [t |-> "str", s |-> s]
DateTimeV(y, mo, d, h, mi, s) ==
    [t |-> "datetime", y |-> y, mo |-> mo, d |-> d, h |-> h, mi |-> mi, sec |-> s]
DateV(y, mo, d) == [t |-> "date", y |-> y, mo |-> mo, d |-> d]

\* The names bound at module level: the imports and the top-level definitions.
ModuleGlobals ==
    {"psycopg2", "os", "datetime", "logging", "Tuple", "List", "Dict", "Any",
     "time", "load_dotenv", "GraphServiceClient", "ClientSecretCredential",
     "InteractiveBrowserCredential", "WorkbookRange", "WorkbookTable",
     "DB_QUERY", "logger", "Config", "get_db_connection", "extract_data",
     "get_graph_client", "load_to_excel_online", "compare_data", "main"}

\* The attributes Config.__init__ sets.
ConfigAttrs ==
    {"DB_HOST", "DB_NAME", "DB_USER", "DB_PASSWORD", "DB_PORT", "TENANT_ID",
     "CLIENT_ID", "CLIENT_SECRET", "USER_ID", "DRIVE_ITEM_ID", "WORKSHEET_NAME",
     "TABLE_NAME", "BATCH_SIZE", "SERVER_CURSOR_NAME"}


(***************************************************************************)
(* str() and strftime('%Y-%m-%d %H:%M:%S').                                *)
(***************************************************************************)
Digit(d) == <<"0", "1", "2", "3", "4", "5", "6", "7", "8", "9">>[d + 1]

Pad2(n) == Digit((n \div 10) % 10) \o Digit(n % 10)

Pad4(n) == Pad2(n \div 100) \o Pad2(n % 100)

RECURSIVE NatStr(_)
NatStr(n) == IF n < 10 THEN Digit(n) ELSE NatStr(n \div 10) \o Digit(n % 10)

\* str(n) of a Python int
IntStr(n) == IF n < 0 THEN "-" \o NatStr(-n) ELSE NatStr(n)

IsDateLike(value) == value.t \in {"datetime", "date"}

\* value.strftime('%Y-%m-%d %H:%M:%S'); a date has no time of day and
\* formats it as midnight.
strftime(value) ==
    LET hms == IF value.t = "datetime"
               THEN Pad2(value.h) \o ":" \o Pad2(value.mi) \o ":" \o Pad2(value.sec)
               ELSE "00:00:00"
    IN  Pad4(value.y) \o "-" \o Pad2(value.mo) \o "-" \o Pad2(value.d) \o " " \o hms

(***************************************************************************)
(* The database cursor.  A cursor is what cur.execute(final_query) and     *)
(* cur.fetchall() will do: raise a DatabaseError, or yield a description   *)
(* (None, or the column names) and a list of row tuples.  fetchall()       *)
(* returns a list, which 'or []' leaves as it is.                          *)
(***************************************************************************)
ColName(j) == "col" \o Digit(j)

\* cur.description of a result set of c columns (the names only)
Description(c) == [t |-> "tuple", names |-> [j \in 1..c |-> ColName(j)]]

CellValue(k, j) ==
    CASE j = 1 /\ k = 3 -> DateV(2024, 12, 31)
      [] j = 1 /\ k # 3 -> IntV(k)
      [] j = 2 /\ k = 1 -> DateTimeV(2024, 3, 7, 9, 5, 0)
      [] j = 2 /\ k = 2 -> None
      [] j = 2 /\ k = 3 -> StrV("x")
      [] OTHER -> IntV(10 * k + j)

Row(k, c) == [j \in 1..c |-> CellValue(k, j)]

RowPool(c) == {Row(k, c) : k \in 1..3}

RowSeqs(c, maxRows) == UNION {[1..n -> RowPool(c)] : n \in 0..maxRows}

Cursors ==
    {[error |-> TRUE, description |-> None, rows |-> <<>>]}
    \cup {[error |-> FALSE, description |-> None, rows |-> r] : r \in RowSeqs(0, MaxRows)}
    \cup UNION {{[error |-> FALSE, description |-> Description(c), rows |-> r] :
                    r \in RowSeqs(c, MaxRows)} : c \in 0..MaxCols}

\* bool(x) of a description: None and the empty tuple are falsy
Truthy(x) == x.t # "none" /\ x.names # <<>>

\* extract_data treating an empty result set as an error
extract_dataRaisesOnEmpty(cur) ==
    IF cur.error \/ cur.rows = <<>>
    THEN [raised |-> TRUE, columns |-> <<>>, data |-> <<>>]
    ELSE [raised |-> FALSE,
          columns |-> IF Truthy(cur.description) THEN cur.description.names ELSE <<>>,
          data |-> cur.rows]

\* extract_data(conn, query, limit): the exception propagates, otherwise
\* (columns, data).
extract_data(cur) ==
    IF cur.error
    THEN [raised |-> TRUE, columns |-> <<>>, data |-> <<>>]
    ELSE [raised |-> FALSE,
          columns |-> IF Truthy(cur.description) THEN cur.description.names ELSE <<>>,
          data |-> cur.rows]

(***************************************************************************)
(* Config.                                                                 *)
(***************************************************************************)
\* os.getenv(name) of a variable that is not set
Unset == "<unset>"

required_vars ==
    {"DB_HOST", "DB_NAME", "DB_USER", "DB_PASSWORD", "TENANT_ID", "CLIENT_ID",
     "DRIVE_ITEM_ID"}

EnvNames == required_vars \cup {"CLIENT_SECRET", "BATCH_SIZE"}

Environments ==
    {e \in [EnvNames -> {Unset, "v", "100", "abc"}] :
        /\ \A k \in EnvNames \ {"BATCH_SIZE"} : e[k] \in {Unset, "v"}
        /\ e["BATCH_SIZE"] \in {Unset, "100", "abc"}}

\* Config.__init__ raises ValueError when int() cannot parse BATCH_SIZE.
ConfigRaises(e) == e["BATCH_SIZE"] = "abc"

\* validate with DRIVE_ITEM_ID left out of required_vars
validateOmitsDriveItem(e) == \A k \in required_vars \ {"DRIVE_ITEM_ID"} : e[k] # Unset

\* Config.validate: every required variable is not None.
validate(e) == \A k \in required_vars : e[k] # Unset


(***************************************************************************)
(* main().                                                                 *)
(***************************************************************************)
\* The cursors main's extract_data call is tried with.
MainCursors == {cur \in Cursors : Len(cur.rows) <= 1}

MainInit ==
    /\ env \in Environments
    /\ mpc = "config"
    /\ conn = "none"
    /\ closes = 0
    /\ row_count = -1
    /\ steps = <<>>
    /\ io = <<>>
    /\ mlog = <<>>

\* config = Config(); if not config.validate(): return
MainConfig ==
    /\ mpc = "config"
    /\ IF ConfigRaises(env)
       THEN /\ mpc' = "critical"
            /\ mlog' = mlog
       ELSE IF ~validate(env)
       THEN /\ mpc' = "done"
            /\ mlog' = Append(mlog, "missing environment")
       ELSE /\ mpc' = "connect"
            /\ mlog' = mlog
    /\ UNCHANGED <<env, conn, closes, row_count, steps, io>>
    /\ UNCHANGED notMain

\* conn = get_db_connection(config); if not conn: return
\* get_db_connection logs every exception of psycopg2.connect and returns None.
MainConnect ==
    /\ mpc = "connect"
    /\ \E ok \in BOOLEAN :
        /\ io' = Append(io, [call |-> "connect", ok |-> ok])
        /\ IF ok
           THEN /\ conn' = "open"
                /\ mpc' = "extract"
                /\ mlog' = mlog
           ELSE /\ conn' = "none"
                /\ mpc' = "done"
                /\ mlog' = Append(mlog, "connection error")
    /\ UNCHANGED <<env, closes, row_count, steps>>
    /\ UNCHANGED notMain

\* columns, data = extract_data(conn, query, limit=1000); row_count = len(data)
MainExtract ==
    /\ mpc = "extract"
    /\ \E cur \in MainCursors :
        LET r == extract_data(cur) IN
        /\ steps' = Append(steps, "extract")
        /\ io' = Append(io, [call |-> "query", ok |-> ~r.raised])
        /\ IF r.raised
           THEN /\ mpc' = "except"
                /\ row_count' = row_count
           ELSE /\ mpc' = "load"
                /\ row_count' = Len(r.data)
    /\ UNCHANGED <<env, conn, closes, mlog>>
    /\ UNCHANGED notMain

\* load_to_excel(columns, data, config.EXCEL_OUTPUT_FILE), compare_data(conn,
\* config.EXCEL_OUTPUT_FILE) and the report.  The call evaluates the name
\* load_to_excel first (NameError when the module does not bind it), then
\* config.EXCEL_OUTPUT_FILE (AttributeError when Config does not set it).
MainLoadCompareReport ==
    /\ mpc = "load"
    /\ \E wr \in BOOLEAN, cmp \in BOOLEAN :
        IF "load_to_excel" \notin ModuleGlobals \/ "EXCEL_OUTPUT_FILE" \notin ConfigAttrs
        THEN /\ mpc' = "except"
             /\ UNCHANGED <<steps, io>>
        ELSE IF ~wr
        THEN /\ mpc' = "except"
             /\ steps' = Append(steps, "write")
             /\ io' = Append(io, [call |-> "write", ok |-> FALSE])
        ELSE IF ~cmp
        THEN /\ mpc' = "except"
             /\ steps' = steps \o <<"write", "reconcile">>
             /\ io' = io \o <<[call |-> "write", ok |-> TRUE],
                              [call |-> "count query", ok |-> FALSE]>>
        ELSE /\ mpc' = "finally"
             /\ steps' = steps \o <<"write", "reconcile", "report">>
             /\ io' = io \o <<[call |-> "write", ok |-> TRUE],
                              [call |-> "count query", ok |-> TRUE]>>
    /\ UNCHANGED <<env, conn, closes, row_count, mlog>>
    /\ UNCHANGED notMain

\* except Exception as e: logger.error(...)
MainExcept ==
    /\ mpc = "except"
    /\ mlog' = Append(mlog, "etl error")
    /\ mpc' = "finally"
    /\ UNCHANGED <<env, conn, closes, row_count, steps, io>>
    /\ UNCHANGED notMain

\* main() closing the connection at the end of the try body instead of in
\* the finally clause: a run that reaches the handler does not close it
MainFinallyNoClose ==
    /\ mpc = "finally"
    /\ mpc' = "done"
    /\ IF mlog # <<>> /\ mlog[Len(mlog)] = "etl error"
       THEN UNCHANGED <<conn, closes, steps>>
       ELSE /\ conn' = "closed"
            /\ closes' = closes + 1
            /\ steps' = Append(steps, "close")
    /\ UNCHANGED <<env, row_count, io, mlog>>
    /\ UNCHANGED notMain

\* finally: if conn: conn.close()
MainFinally ==
    /\ mpc = "finally"
    /\ mpc' = "done"
    /\ IF conn # "none"
       THEN /\ conn' = "closed"
            /\ closes' = closes + 1
            /\ steps' = Append(steps, "close")
       ELSE UNCHANGED <<conn, closes, steps>>
    /\ UNCHANGED <<env, row_count, io, mlog>>
    /\ UNCHANGED notMain

\* the outer handler: except Exception as e: logger.error(...)
MainCritical ==
    /\ mpc = "critical"
    /\ mlog' = Append(mlog, "critical error")
    /\ mpc' = "done"
    /\ UNCHANGED <<env, conn, closes, row_count, steps, io>>
    /\ UNCHANGED notMain

MainNext ==
    \/ MainConfig
    \/ MainConnect
    \/ MainExtract
    \/ MainLoadCompareReport
    \/ MainExcept
    \/ MainFinally
    \/ MainCritical


(***************************************************************************)
(* load_to_excel_online(), run on the result of extract_data().            *)
(***************************************************************************)
\* chr(n) for the code points from 64 ('@') to 95 ('_')
chr(n) ==
    <<"@", "A", "B", "C", "D", "E", "F", "G", "H", "I", "J", "K", "L", "M", "N",
      "O", "P", "Q", "R", "S", "T", "U", "V", "W", "X", "Y", "Z", "[", "\\", "]",
      "^", "_">>[n - 63]

\* ord('A')
OrdA == 65

\* f"A1:{chr(ord('A') + len(columns) - 1)}{len(data) + 1}"
RangeAddress(ncols, nrows) ==
    "A1:" \o chr(OrdA + ncols - 1) \o IntStr(nrows + 1)

\* one row of formatted_data
FormatRow(row_data) ==
    [j \in 1..Len(row_data) |->
        IF IsDateLike(row_data[j]) THEN StrV(strftime(row_data[j])) ELSE row_data[j]]

FormatData(d) == [k \in 1..Len(d) |-> FormatRow(d[k])]

Min(a, b) == IF a <= b THEN a ELSE b

\* the slice with its end off by one: formatted_data[i:i + BATCH_SIZE - 1]
SliceDropsLast(s, i, n) == SubSeq(s, i + 1, Min(i + n - 1, Len(s)))

\* formatted_data[i:i + config.BATCH_SIZE]
Slice(s, i, n) == SubSeq(s, i + 1, Min(i + n, Len(s)))

\* What header_row.get() can return: None, a range without values, a range
\* with an empty value list, a range with one row of header cells.
HeaderResults ==
    {[isNone |-> TRUE, hasValues |-> FALSE, values |-> <<>>],
     [isNone |-> FALSE, hasValues |-> FALSE, values |-> <<>>],
     [isNone |-> FALSE, hasValues |-> TRUE, values |-> <<>>],
     [isNone |-> FALSE, hasValues |-> TRUE, values |-> <<<<"Column1">>>>]}

Unread == [isNone |-> TRUE, hasValues |-> FALSE, values |-> <<"unread">>]

\* the test without its second half: not header_range
HeaderMissingOnlyNone(h) == h.isNone

\* not header_range or not header_range.values
HeaderMissing(h) == h.isNone \/ ~h.hasValues \/ h.values = <<>>

Call(op, site, arg, ok) == [op |-> op, site |-> site, arg |-> arg, ok |-> ok]

LoadInit ==
    /\ cursor \in Cursors
    /\ batchSize \in 1..MaxBatch
    /\ lpc = "extract"
    /\ columns = <<>>
    /\ data = <<>>
    /\ table = "unset"
    /\ formatted_data = <<>>
    /\ idx = 0
    /\ calls = <<>>
    /\ lookupErr = "none"
    /\ headerRead = Unread

\* columns, data = extract_data(conn, query)
LoadExtract ==
    /\ lpc = "extract"
    /\ LET r == extract_data(cursor) IN
        /\ lpc' = IF r.raised THEN "extract_raised" ELSE "lookup"
        /\ columns' = r.columns
        /\ data' = r.data
    /\ UNCHANGED <<cursor, batchSize, table, formatted_data, idx, calls,
                   lookupErr, headerRead>>
    /\ UNCHANGED notLoad

\* the lookup followed by the creation whatever the lookup returned
LookupTableAlwaysCreates ==
    /\ lpc = "lookup"
    /\ \E outcome \in {"found", "not_found", "other"} :
        /\ calls' = Append(calls, Call("get_table", "lookup", outcome, outcome = "found"))
        /\ table' = IF outcome = "found" THEN "found" ELSE table
        /\ lookupErr' = IF outcome = "found" THEN lookupErr ELSE outcome
        /\ lpc' = "create"
    /\ UNCHANGED <<cursor, batchSize, columns, data, formatted_data, idx, headerRead>>
    /\ UNCHANGED notLoad

\* table = await graph_client.request_adapter.send_async(table_path, ...)
\* inside try / except Exception: every exception of the lookup, whatever
\* its cause, leads to the creation of the table.
LookupTable ==
    /\ lpc = "lookup"
    /\ \E outcome \in {"found", "not_found", "other"} :
        /\ calls' = Append(calls, Call("get_table", "lookup", outcome, outcome = "found"))
        /\ IF outcome = "found"
           THEN /\ table' = "found"
                /\ lookupErr' = lookupErr
                /\ lpc' = "header_get"
           ELSE /\ table' = table
                /\ lookupErr' = outcome
                /\ lpc' = "create"
    /\ UNCHANGED <<cursor, batchSize, columns, data, formatted_data, idx, headerRead>>
    /\ UNCHANGED notLoad

\* table = await ...tables.post(table_request_body); a failure is logged and
\* re-raised, and the outer handler logs and re-raises it again.
CreateTable ==
    /\ lpc = "create"
    /\ \E ok \in BOOLEAN :
        /\ calls' = Append(calls,
                Call("create_table", "create", RangeAddress(Len(columns), Len(data)), ok))
        /\ table' = IF ok THEN "created" ELSE table
        /\ lpc' = IF ok THEN "header_get" ELSE "raised"
    /\ UNCHANGED <<cursor, batchSize, columns, data, formatted_data, idx,
                   lookupErr, headerRead>>
    /\ UNCHANGED notLoad

\* header_range = await ...header_row.get()
HeaderGet ==
    /\ lpc = "header_get"
    /\ \/ \E h \in HeaderResults :
            /\ calls' = Append(calls, Call("get_header_row", "header_get", "", TRUE))
            /\ headerRead' = h
            /\ lpc' = IF HeaderMissing(h) THEN "header_write" ELSE "format"
       \/ /\ calls' = Append(calls, Call("get_header_row", "header_get", "", FALSE))
          /\ headerRead' = headerRead
          /\ lpc' = "raised"
    /\ UNCHANGED <<cursor, batchSize, columns, data, table, formatted_data, idx,
                   lookupErr>>
    /\ UNCHANGED notLoad

\* await ...rows.add.post({"values": [columns]})
HeaderWrite ==
    /\ lpc = "header_write"
    /\ \E ok \in BOOLEAN :
        /\ calls' = Append(calls, Call("rows_add", "header", <<columns>>, ok))
        /\ lpc' = IF ok THEN "format" ELSE "raised"
    /\ UNCHANGED <<cursor, batchSize, columns, data, table, formatted_data, idx,
                   lookupErr, headerRead>>
    /\ UNCHANGED notLoad

\* the loop that builds formatted_data
Format ==
    /\ lpc = "format"
    /\ formatted_data' = FormatData(data)
    /\ idx' = 0
    /\ lpc' = "loop"
    /\ UNCHANGED <<cursor, batchSize, columns, data, table, calls, lookupErr,
                   headerRead>>
    /\ UNCHANGED notLoad

\* for i in range(0, len(formatted_data), config.BATCH_SIZE): one iteration
AppendBatch ==
    /\ lpc = "loop"
    /\ idx < Len(formatted_data)
    /\ \E ok \in BOOLEAN :
        /\ calls' = Append(calls,
                Call("rows_add", "batch", Slice(formatted_data, idx, batchSize), ok))
        /\ idx' = IF ok THEN idx + batchSize ELSE idx
        /\ lpc' = IF ok THEN "loop" ELSE "raised"
    /\ UNCHANGED <<cursor, batchSize, columns, data, table, formatted_data,
                   lookupErr, headerRead>>
    /\ UNCHANGED notLoad

\* the loop is exhausted: logger.info(...), return
LoadReturn ==
    /\ lpc = "loop"
    /\ idx >= Len(formatted_data)
    /\ lpc' = "returned"
    /\ UNCHANGED <<cursor, batchSize, columns, data, table, formatted_data, idx,
                   calls, lookupErr, headerRead>>
    /\ UNCHANGED notLoad

LoadNext ==
    \/ LoadExtract
    \/ LookupTable
    \/ CreateTable
    \/ HeaderGet
    \/ HeaderWrite
    \/ Format
    \/ AppendBatch
    \/ LoadReturn

(***************************************************************************)
(* The range address of the create-table request, as a function of the     *)
(* column count and the row count.                                         *)
(***************************************************************************)
RangeInit ==
    /\ rpc = "start"
    /\ rC \in 1..MaxRangeCols
    /\ rN \in 0..MaxRangeRows
    /\ rAddr = ""

ComputeRange ==
    /\ rpc = "start"
    /\ rAddr' = RangeAddress(rC, rN)
    /\ rpc' = "done"
    /\ UNCHANGED <<rC, rN>>
    /\ UNCHANGED notRange


(***************************************************************************)
(* compare_data().                                                         *)
(***************************************************************************)
\* fetchmany(5), excel_data[:5]
SampleSize == 5

\* normalize_value(value)
normalize_value(value) ==
    CASE value.t = "none" -> ""
      [] IsDateLike(value) -> strftime(value)
      [] value.t = "int" -> IntStr(value.n)
      [] OTHER -> value.s

NormalizeRow(row) == [j \in 1..Len(row) |-> normalize_value(row[j])]

NormalizeRows(rows) == [k \in 1..Len(rows) |-> NormalizeRow(rows[k])]

FirstN(s, n) == SubSeq(s, 1, Min(n, Len(s)))

\* sheet.iter_rows(min_row=2, values_only=True): every row but the first
DataRows(sheet) == SubSeq(sheet, 2, Len(sheet))

\* lines 289-321: the comparison of the counts and of the first five rows
CompareRows(db_total_count, db_first_5_rows, sheet) ==
    LET excel_data == DataRows(sheet)
        excel_row_count == Len(excel_data)
        excel_first_5_rows == FirstN(excel_data, SampleSize)
        row_count_match == db_total_count = excel_row_count
        first_5_rows_match ==
            NormalizeRows(db_first_5_rows) = NormalizeRows(excel_first_5_rows)
    IN  <<row_count_match, first_5_rows_match>>

\* Rows of the source table, and rows as a worksheet holds them.
DbRow(k) == IF k = 1 THEN <<IntV(1), DateTimeV(2024, 3, 7, 9, 5, 0)>>
            ELSE <<IntV(2), None>>

SheetRow(k) == IF k = 1 THEN <<IntV(1), StrV("2024-03-07 09:05:00")>>
               ELSE <<StrV("2"), StrV("")>>

HeaderRow == <<StrV("col1"), StrV("col2")>>

DbTables == UNION {[1..n -> {DbRow(1), DbRow(2)}] : n \in 0..MaxCmpRows}

Sheets ==
    {<<>>} \cup
    UNION {{<<HeaderRow>> \o r : r \in [1..n -> {SheetRow(1), SheetRow(2)}]} :
              n \in 0..MaxCmpRows}

NoResult == [kind |-> "none", value |-> <<>>, exc |-> ""]
Returned(v) == [kind |-> "returned", value |-> v, exc |-> ""]
Raised(e) == [kind |-> "raised", value |-> <<>>, exc |-> e]

\* cin.count: the answer of the COUNT(*) query; cin.rows: the rows DB_QUERY
\* yields; cin.exists: os.path.exists(excel_file); cin.sheet: the rows of
\* the workbook's active sheet.
CompareInit ==
    /\ cpc = "count"
    /\ cres = NoResult
    /\ cin \in [count : 0..MaxCmpRows, rows : DbTables, exists : BOOLEAN,
                sheet : Sheets]

\* cur.execute(db_total_count_query); db_total_count = cur.fetchone()[0]
CmpCount ==
    /\ cpc = "count"
    /\ \E ok \in BOOLEAN :
        IF ok THEN cpc' = "first5" /\ cres' = cres
        ELSE cpc' = "done" /\ cres' = Raised("DatabaseError")
    /\ UNCHANGED cin
    /\ UNCHANGED notCompare

\* cur.execute(DB_QUERY); db_first_5_rows = cur.fetchmany(5)
CmpFirst5 ==
    /\ cpc = "first5"
    /\ \E ok \in BOOLEAN :
        IF ok THEN cpc' = "excel" /\ cres' = cres
        ELSE cpc' = "done" /\ cres' = Raised("DatabaseError")
    /\ UNCHANGED cin
    /\ UNCHANGED notCompare

\* lines 281-321: the file check, openpyxl.load_workbook (NameError when the
\* module does not bind openpyxl) and the comparison
CmpExcel ==
    /\ cpc = "excel"
    /\ cpc' = "done"
    /\ cres' = IF ~cin.exists THEN Returned(<<FALSE, FALSE>>)
               ELSE IF "openpyxl" \notin ModuleGlobals THEN Raised("NameError")
               ELSE Returned(CompareRows(cin.count, FirstN(cin.rows, SampleSize),
                                         cin.sheet))
    /\ UNCHANGED cin
    /\ UNCHANGED notCompare

(***************************************************************************)
(* The specifications.                                                     *)
(***************************************************************************)
MainIdle ==
    /\ env = [k \in EnvNames |-> Unset]
    /\ mpc = "idle"
    /\ conn = "none"
    /\ closes = 0
    /\ row_count = -1
    /\ steps = <<>>
    /\ io = <<>>
    /\ mlog = <<>>

LoadIdle ==
    /\ cursor = [error |-> TRUE, description |-> None, rows |-> <<>>]
    /\ batchSize = 1
    /\ lpc = "idle"
    /\ columns = <<>>
    /\ data = <<>>
    /\ table = "unset"
    /\ formatted_data = <<>>
    /\ idx = 0
    /\ calls = <<>>
    /\ lookupErr = "none"
    /\ headerRead = Unread

CompareIdle ==
    /\ cpc = "idle"
    /\ cres = NoResult
    /\ cin = [count |-> 0, rows |-> <<>>, exists |-> FALSE, sheet |-> <<>>]

RangeIdle ==
    /\ rpc = "idle"
    /\ rC = 1
    /\ rN = 0
    /\ rAddr = ""

Init == MainInit /\ LoadIdle /\ CompareIdle /\ RangeIdle

Next == MainNext

Spec == Init /\ [][Next]_vars

InitLoad == LoadInit /\ MainIdle /\ CompareIdle /\ RangeIdle

NextLoad == LoadNext

SpecLoad == InitLoad /\ [][NextLoad]_vars

InitCompare == CompareInit /\ MainIdle /\ LoadIdle /\ RangeIdle

NextCompare == CmpCount \/ CmpFirst5 \/ CmpExcel

SpecCompare == InitCompare /\ [][NextCompare]_vars

InitRange == RangeInit /\ MainIdle /\ LoadIdle /\ CompareIdle

NextRange == ComputeRange

SpecRange == InitRange /\ [][NextRange]_vars


(***************************************************************************)
(* Properties of main(), checked under Spec.                               *)
(***************************************************************************)
ConnectSucceeded == \E i \in 1..Len(io) : io[i].call = "connect" /\ io[i].ok

NoCallFailed == \A i \in 1..Len(io) : io[i].ok

C6_Fields ==
    {"DB_HOST", "DB_NAME", "DB_USER", "DB_PASSWORD", "TENANT_ID", "CLIENT_ID",
     "DRIVE_ITEM_ID"}

AnyFieldMissing == \E k \in C6_Fields : env[k] = Unset

\* C2: once get_db_connection has returned a connection, main() closes it
\* exactly once before it returns, whichever step raised: the connection is
\* never closed twice, it is not closed while a step can still use it, and
\* when main() is done after a successful connect it has been closed once.
C2_ConnectionClosedExactlyOnce ==
    /\ closes <= 1
    /\ mpc \in {"extract", "load", "except", "finally"} => closes = 0 /\ conn = "open"
    /\ (mpc = "done" /\ ConnectSucceeded) => closes = 1 /\ conn = "closed"
    /\ ~ConnectSucceeded => closes = 0

\* C2 witness: main() is done after extract_data raised, and the connection
\* was closed once.
C2_Witness ==
    /\ mpc = "done"
    /\ ConnectSucceeded
    /\ \E i \in 1..Len(io) : io[i].call = "query" /\ ~io[i].ok
    /\ mlog = <<"etl error">>
    /\ closes = 1

\* C3: in a run with a valid configuration, a successful connect and no
\* failing database or destination call, main() reaches extract, write,
\* reconcile, report and close, in this order.
C3_AllStepsInOrder ==
    (mpc = "done" /\ ~ConfigRaises(env) /\ ~AnyFieldMissing /\ ConnectSucceeded
        /\ NoCallFailed)
    => steps = <<"extract", "write", "reconcile", "report", "close">>

\* C6: when a required configuration field is missing, main() ends at the
\* configuration step: no connection attempt, no query and no destination
\* call is ever made.
C6_NoIOWhenConfigIncomplete ==
    AnyFieldMissing =>
        /\ io = <<>>
        /\ conn = "none"
        /\ steps = <<>>
        /\ mpc \in {"config", "critical", "done"}

\* C6 witness: DRIVE_ITEM_ID alone is missing, and main() has returned after
\* logging the missing environment, with no call made.
C6_Witness ==
    /\ env["DRIVE_ITEM_ID"] = Unset
    /\ \A k \in C6_Fields \ {"DRIVE_ITEM_ID"} : env[k] # Unset
    /\ mpc = "done"
    /\ mlog = <<"missing environment">>
    /\ io = <<>>

(***************************************************************************)
(* Properties of load_to_excel_online(), checked under SpecLoad.           *)
(***************************************************************************)
CallsAt(site) == {i \in 1..Len(calls) : calls[i].site = site}

BatchCalls == SelectSeq(calls, LAMBDA c : c.site = "batch")

NoRemoteFailure == \A i \in 1..Len(calls) : calls[i].ok

RECURSIVE Flatten(_)
Flatten(ss) == IF ss = <<>> THEN <<>> ELSE Head(ss) \o Flatten(Tail(ss))

BatchedRows == Flatten([k \in 1..Len(BatchCalls) |-> BatchCalls[k].arg])

Ceil(n, b) == (n + b - 1) \div b

BatchShape ==
    /\ Len(BatchCalls) = Ceil(Len(data), batchSize)
    /\ \A k \in 1..Len(BatchCalls) - 1 : Len(BatchCalls[k].arg) = batchSize
    /\ \A k \in 1..Len(BatchCalls) :
          Len(BatchCalls[k].arg) >= 1 /\ Len(BatchCalls[k].arg) <= batchSize

\* the text a date/time value of the source rows is written as
C1_Rendered(v) ==
    CASE v = DateTimeV(2024, 3, 7, 9, 5, 0) -> StrV("2024-03-07 09:05:00")
      [] v = DateV(2024, 12, 31) -> StrV("2024-12-31 00:00:00")
      [] OTHER -> v

C1_RenderedRows(rows) ==
    [k \in 1..Len(rows) |-> [j \in 1..Len(rows[k]) |-> C1_Rendered(rows[k][j])]]

\* C1 as stated: when no remote call fails, the append calls number
\* ceil(N/B), every batch but the last has B rows, and the batches
\* concatenated in call order are the input row list itself.
C1_BatchesAreInput ==
    (lpc = "returned" /\ NoRemoteFailure) =>
        /\ BatchShape
        /\ BatchedRows = data

\* C1 amended: when no remote call fails, the append calls number ceil(N/B),
\* every batch but the last has B rows, and the batches concatenated in call
\* order are the input rows in their order, each date/time value rendered as
\* 'YYYY-MM-DD HH:MM:SS' text and every other value unchanged.
C1_BatchesAreRenderedInput ==
    (lpc = "returned" /\ NoRemoteFailure) =>
        /\ BatchShape
        /\ BatchedRows = C1_RenderedRows(data)

\* C1 witness: a run that returned with every call successful, more rows
\* than one batch holds, a partial last batch and a date/time value.
C1_Witness ==
    /\ lpc = "returned"
    /\ NoRemoteFailure
    /\ Len(data) > batchSize
    /\ batchSize > 1
    /\ Len(data) % batchSize # 0
    /\ Len(BatchCalls) >= 2
    /\ \E k \in 1..Len(data) : data[k] = Row(1, 2)

LookupOutcome ==
    IF CallsAt("lookup") = {} THEN "pending"
    ELSE calls[CHOOSE i \in CallsAt("lookup") : TRUE].arg

RowsAddCalls == {i \in 1..Len(calls) : calls[i].op = "rows_add"}

\* C4: when the lookup reports that the table does not exist, one
\* create-table call is made, and it precedes every rows.add call; when the
\* lookup finds the table, no create-table call is made.  At most one
\* create-table call is made in any run.
C4_CreateOnlyWhenMissing ==
    /\ Cardinality(CallsAt("create")) <= 1
    /\ Cardinality(CallsAt("lookup")) <= 1
    /\ (LookupOutcome = "not_found" /\ lpc # "create") =>
          /\ Cardinality(CallsAt("create")) = 1
          /\ \A i \in CallsAt("create") : \A j \in RowsAddCalls : i < j
    /\ LookupOutcome = "found" => CallsAt("create") = {}

\* C4 witness: the table was missing, it was created, and the run returned
\* after a header write and two batches.
C4_Witness ==
    /\ LookupOutcome = "not_found"
    /\ lpc = "returned"
    /\ Cardinality(CallsAt("create")) = 1
    /\ Cardinality(CallsAt("header")) = 1
    /\ Len(BatchCalls) >= 2

HeaderPopulated(h) == ~h.isNone /\ h.hasValues /\ Len(h.values) > 0

DescribedColumns ==
    IF cursor.description.t = "tuple" THEN cursor.description.names ELSE <<>>

\* C5: when the header row read from the table is populated, no header
\* write is made; when it is empty or absent, one header write is made, it
\* carries the column names in extraction order, and it precedes every data
\* append call.  No header write is made before the header row is read.
C5_HeaderWrittenOnceIfMissing ==
    /\ headerRead = Unread => CallsAt("header") = {}
    /\ (headerRead # Unread /\ HeaderPopulated(headerRead)) =>
          /\ CallsAt("header") = {}
          /\ lpc # "header_write"
    /\ (headerRead # Unread /\ ~HeaderPopulated(headerRead) /\ lpc # "header_write") =>
          /\ Cardinality(CallsAt("header")) = 1
          /\ \A i \in CallsAt("header") :
                /\ calls[i].op = "rows_add"
                /\ calls[i].arg = <<DescribedColumns>>
                /\ \A j \in CallsAt("batch") : i < j

\* C5 witness: the header row came back with an empty value list, the two
\* column names were written, and data batches followed.
C5_Witness ==
    /\ headerRead = [isNone |-> FALSE, hasValues |-> TRUE, values |-> <<>>]
    /\ lpc = "returned"
    /\ Cardinality(CallsAt("header")) = 1
    /\ Len(columns) = 2
    /\ Len(BatchCalls) >= 1

\* a failed call other than a lookup answered 'table not found'
FatalFailure(i) ==
    /\ ~calls[i].ok
    /\ ~(calls[i].op = "get_table" /\ calls[i].arg = "not_found")

\* C7: table-not-found on the lookup is the only recoverable destination
\* error: after any other failed call (the lookup included) the write step
\* has raised and that call is the last destination call made.
C7_OnlyNotFoundIsRecoverable ==
    \A i \in 1..Len(calls) : FatalFailure(i) => (i = Len(calls) /\ lpc = "raised")

\* C9 as stated: a query that yields zero rows makes extract_data return an
\* empty column list and an empty row list without raising, and the write
\* step makes no data append call.
C9_EmptyResultEmptyColumns ==
    (~cursor.error /\ cursor.rows = <<>> /\ lpc # "extract") =>
        /\ lpc # "extract_raised"
        /\ columns = <<>>
        /\ data = <<>>
        /\ CallsAt("batch") = {}

\* C9 amended: a query that yields zero rows makes extract_data return,
\* without raising, an empty row list and the column names of the cursor's
\* description (the empty list only when there is no description or it is
\* empty), and the write step makes no data append call.
C9_EmptyResultKeepsColumns ==
    (~cursor.error /\ cursor.rows = <<>> /\ lpc # "extract") =>
        /\ lpc # "extract_raised"
        /\ columns = DescribedColumns
        /\ data = <<>>
        /\ CallsAt("batch") = {}

\* C9 witness: a result set of two columns and no rows went through the
\* write step, which returned without a data append call.
C9_Witness ==
    /\ ~cursor.error
    /\ cursor.rows = <<>>
    /\ Len(columns) = 2
    /\ lpc = "returned"
    /\ CallsAt("batch") = {}
    /\ Len(calls) >= 2

(***************************************************************************)
(* Properties of the range address, checked under SpecRange.               *)
(***************************************************************************)
Letters ==
    <<"A", "B", "C", "D", "E", "F", "G", "H", "I", "J", "K", "L", "M", "N", "O",
      "P", "Q", "R", "S", "T", "U", "V", "W", "X", "Y", "Z">>

\* the spreadsheet reference of the c-th column: A..Z, AA, AB, ...
RECURSIVE ColumnRef(_)
ColumnRef(c) ==
    IF c <= 26 THEN Letters[c]
    ELSE ColumnRef((c - 1) \div 26) \o Letters[((c - 1) % 26) + 1]

\* C10: for C >= 1 columns and N >= 0 rows the range address of the create
\* call is A1 to the reference of the C-th column followed by row N+1.
C10_RangeSpansColumnsAndRows ==
    rpc = "done" => rAddr = "A1:" \o ColumnRef(rC) \o IntStr(rN + 1)

(***************************************************************************)
(* Properties of compare_data(), checked under SpecCompare.                *)
(***************************************************************************)
C8_CountsEqual == cin.count = Len(DataRows(cin.sheet))

C8_SamplesEqual ==
    NormalizeRows(FirstN(cin.rows, SampleSize))
        = NormalizeRows(FirstN(DataRows(cin.sheet), SampleSize))

\* C8: with the database answering and the Excel file present, compare_data
\* returns (true, true) when the counts are equal and the first five rows
\* are equal after normalization, a false first component when the counts
\* differ, and a false second component when the first five normalized rows
\* differ.
C8_CompareContract ==
    (cpc = "done" /\ cres.exc # "DatabaseError" /\ cin.exists) =>
        /\ cres.kind = "returned"
        /\ (C8_CountsEqual /\ C8_SamplesEqual) => cres.value = <<TRUE, TRUE>>
        /\ ~C8_CountsEqual => cres.value[1] = FALSE
        /\ ~C8_SamplesEqual => cres.value[2] = FALSE

============================================================================
